---- MODULE Spec2Model ----
(***************************************************************************)
(* Model of the tablet snapshot subsystem (be/src/olap/snapshot_manager.cpp)*)
(* of the storage engine: SnapshotManager::make_snapshot (full and          *)
(* incremental construction), SnapshotManager::release_snapshot, the        *)
(* snapshot id allocator, and the collaborators they consult (tablet        *)
(* metadata lock, rowset set, meta store, file system).                     *)
(*                                                                          *)
(* Strings are sequences of one-character strings, so that the string       *)
(* comparisons and concatenations of the code are computed character by     *)
(* character.  A file-system path is a sequence of components, each a       *)
(* string.                                                                  *)
(***************************************************************************)
EXTENDS Integers, Sequences, FiniteSets, TLC

(***************************************************************************)
(* Bounds of the model.                                                     *)
(***************************************************************************)
MaxClock == 1
MaxVersion == 2
MaxWrites == 1
MaxReleases == 1
MaxFaults == 1

Threads == {"w1", "w2"}
NoThread == "none"
Hashes == {7, 8}

(***************************************************************************)
(* Status codes (OLAPStatus).  The codes returned by collaborators whose    *)
(* source is not part of the model are named after the collaborator.        *)
(***************************************************************************)
OLAP_SUCCESS == "OLAP_SUCCESS"
OLAP_ERR_INPUT_PARAMETER_ERROR == "OLAP_ERR_INPUT_PARAMETER_ERROR"
OLAP_ERR_TABLE_NOT_FOUND == "OLAP_ERR_TABLE_NOT_FOUND"
OLAP_ERR_VERSION_NOT_EXIST == "OLAP_ERR_VERSION_NOT_EXIST"
OLAP_ERR_MALLOC_ERROR == "OLAP_ERR_MALLOC_ERROR"
OLAP_ERR_CE_CMD_PARAMS_ERROR == "OLAP_ERR_CE_CMD_PARAMS_ERROR"
ERR_GEN_TIMESTAMP == "gen_timestamp_string failed"
ERR_CAPTURE_ROWSETS == "capture_consistent_rowsets failed"
ERR_GET_HEADER == "TabletMetaManager::get_header failed"
ERR_SAVE_HEADER == "TabletMeta::save failed"
ERR_ROWSET_LINK == "Rowset::make_snapshot failed"
ERR_TABLET_LOAD == "Tablet::load failed"

(***************************************************************************)
(* Strings.                                                                 *)
(***************************************************************************)
DigitChars == <<"0", "1", "2", "3", "4", "5", "6", "7", "8", "9">>

\* operator<< of an integer into a stringstream: its decimal digits.
RECURSIVE Dec(_)
Dec(n) == IF n < 10 THEN <<DigitChars[n + 1]>>
          ELSE Dec(n \div 10) \o <<DigitChars[(n % 10) + 1]>>

Min(a, b) == IF a < b THEN a ELSE b

\* std::string::compare(pos, len, str) == 0.  pos > size() throws
\* out_of_range; the callers below never reach that case (see ReleaseMatches).
StrCompareEq(s, pos, len, str) ==
    /\ pos <= Len(s)
    /\ SubSeq(s, pos + 1, Min(pos + len, Len(s))) = str

SNAPSHOT_PREFIX == <<"/", "s", "n", "a", "p", "s", "h", "o", "t">>
DataDirName == <<"d", "a", "t", "a">>
SnapshotDirName == <<"s", "n", "a", "p", "s", "h", "o", "t">>
SiblingDirName == <<"s", "n", "a", "p", "s", "h", "o", "t", "_", "o">>
HdrSuffix == <<".", "h", "d", "r">>
Dot == <<".">>
DotDot == <<".", ".">>

(***************************************************************************)
(* Paths and the file system.  fs maps every existing path to its content.  *)
(***************************************************************************)
RECURSIVE SplitFrom(_, _, _)
SplitFrom(s, i, cur) ==
    IF i > Len(s) THEN <<cur>>
    ELSE IF s[i] = "/" THEN <<cur>> \o SplitFrom(s, i + 1, <<>>)
    ELSE SplitFrom(s, i + 1, Append(cur, s[i]))

\* The components of a path string, empty components included.
Split(s) == SplitFrom(s, 1, <<>>)

RECURSIVE Join(_)
Join(p) == IF p = <<>> THEN <<>> ELSE <<"/">> \o Head(p) \o Join(Tail(p))

Parent(p) == IF p = <<>> THEN <<>> ELSE SubSeq(p, 1, Len(p) - 1)

IsPrefix(p, q) == Len(p) <= Len(q) /\ SubSeq(q, 1, Len(p)) = p

NoPath == << <<"?">> >>

DirContent == [kind |-> "dir"]

IsDir(f, p) == p = <<>> \/ (p \in DOMAIN f /\ f[p].kind = "dir")

\* boost::filesystem::canonical on a path without symbolic links: "." and
\* empty components dropped, ".." resolved against the path so far.
RECURSIVE CanonFrom(_, _)
CanonFrom(comps, cur) ==
    IF comps = <<>> THEN cur
    ELSE LET c == Head(comps)
         IN IF c = <<>> \/ c = Dot THEN CanonFrom(Tail(comps), cur)
            ELSE IF c = DotDot THEN CanonFrom(Tail(comps), Parent(cur))
            ELSE CanonFrom(Tail(comps), Append(cur, c))

canonical(s) == CanonFrom(Split(s), <<>>)

\* The operating system's resolution of a path string: as canonical, but a
\* ".." is followed only out of an existing directory.
RECURSIVE LookupFrom(_, _, _)
LookupFrom(f, comps, cur) ==
    IF comps = <<>> THEN cur
    ELSE LET c == Head(comps)
         IN IF c = <<>> \/ c = Dot THEN LookupFrom(f, Tail(comps), cur)
            ELSE IF c = DotDot
                 THEN IF IsDir(f, cur) THEN LookupFrom(f, Tail(comps), Parent(cur))
                      ELSE NoPath
            ELSE LookupFrom(f, Tail(comps), Append(cur, c))

Lookup(f, s) == LookupFrom(f, Split(s), <<>>)

check_dir_existed(f, s) == Lookup(f, s) \in DOMAIN f

RemoveTree(f, p) == [q \in {q \in DOMAIN f : ~IsPrefix(p, q)} |-> f[q]]

remove_all_dir(f, s) ==
    LET p == Lookup(f, s)
    IN IF p \in DOMAIN f THEN RemoveTree(f, p) ELSE f

Prefixes(p) == {SubSeq(p, 1, n) : n \in 1..Len(p)}

create_dirs(f, s) ==
    LET p == Lookup(f, s)
        new == Prefixes(p) \ DOMAIN f
    IN [q \in DOMAIN f \cup new |-> IF q \in DOMAIN f THEN f[q] ELSE DirContent]

PutFile(f, p, c) == [q \in DOMAIN f \cup {p} |-> IF q = p THEN c ELSE f[q]]

(***************************************************************************)
(* The storage engine: stores (data dirs), tablets and their rowsets.       *)
(***************************************************************************)
StoreA == <<"/", "a">>
StoreB == <<"/", "b">>

\* StorageEngine::get_stores(): the registered stores, by path.
Stores == <<StoreA, StoreB>>

\* A tablet is identified by <<tablet_id, schema_hash>>.
TabletKeys == {<<1, 3>>, <<2, 4>>}
NoTablet == <<0, 0>>

\* Tablet::storage_root_path_name(): the path of the store the tablet is on.
storage_root_path_name(k) == IF k = <<1, 3>> THEN StoreA ELSE StoreB

Rowset(s, e, h) == [start |-> s, end |-> e, hash |-> h]

\* Rowset::rowset_meta(): the version range and fingerprint of the rowset.
rowset_meta(r) == [version |-> <<r.start, r.end>>, version_hash |-> r.hash]

\* The name of the rowset's file (one file stands for its data and index files).
RowsetFile(r) == Dec(r.start) \o <<"_">> \o Dec(r.end) \o <<"_">> \o Dec(r.hash)

TabletDataDir(k) == canonical(storage_root_path_name(k)) \o <<DataDirName, Dec(k[1])>>

FileContent(r) == [kind |-> "file", rowset |-> r]

HdrContent(metas) == [kind |-> "hdr", rs_metas |-> metas]

\* Tablet <<1, 3>> starts with versions 0 and 1, tablet <<2, 4>> without versions.
InitRowsets(k) == IF k = <<1, 3>> THEN {Rowset(0, 0, 7), Rowset(1, 1, 7)} ELSE {}

\* What an earlier run of the process has left in the snapshot directory of
\* store "/a": the schema hash directory of a snapshot of tablet <<1, 3>> taken
\* at second 0 with counter value 0, and a file in it.
StaleSchemaDir == canonical(StoreA) \o <<SnapshotDirName, <<"0", ".", "0">>, Dec(1), Dec(3)>>

StaleFile == Append(StaleSchemaDir, <<"s", "t", "a", "l", "e">>)

StaleContent == [kind |-> "stale"]

InitDirs ==
    UNION {{canonical(Stores[i]),
            canonical(Stores[i]) \o <<DataDirName>>,
            canonical(Stores[i]) \o <<SnapshotDirName>>,
            canonical(Stores[i]) \o <<SiblingDirName>>} : i \in DOMAIN Stores}
    \cup {TabletDataDir(k) : k \in TabletKeys}
    \cup {SubSeq(StaleSchemaDir, 1, n) : n \in 3..Len(StaleSchemaDir)}

DataFile(k, r) == Append(TabletDataDir(k), RowsetFile(r))

InitFiles == UNION {{<<k, r>> : r \in InitRowsets(k)} : k \in TabletKeys}

InitFs ==
    LET paths == {DataFile(kr[1], kr[2]) : kr \in InitFiles}
    IN [p \in InitDirs \cup paths \cup {StaleFile} |->
          IF p \in InitDirs THEN DirContent
          ELSE IF p = StaleFile THEN StaleContent
          ELSE FileContent((CHOOSE kr \in InitFiles : DataFile(kr[1], kr[2]) = p)[2])]

\* TabletManager::get_tablet(tablet_id, schema_hash): the tablet, or NULL.
get_tablet(tablet_id, schema_hash) ==
    IF <<tablet_id, schema_hash>> \in TabletKeys THEN <<tablet_id, schema_hash>> ELSE NoTablet

(***************************************************************************)
(* Requests (TSnapshotRequest).                                             *)
(***************************************************************************)
Request(k, hv, v, vh, hm, mv) ==
    [tablet_id |-> k[1], schema_hash |-> k[2],
     isset_version |-> hv, version |-> v, version_hash |-> vh,
     isset_missing_version |-> hm, missing_version |-> mv]

ReqKeys == TabletKeys \cup {<<1, 4>>}

MissingLists ==
    {<<>>} \cup {<<a>> : a \in 1..MaxVersion}
    \cup {<<m[1], m[2]>> : m \in {x \in (1..MaxVersion) \X (1..MaxVersion) : x[1] # x[2]}}

\* The version fields of a request: unset, or a version and its fingerprint.
VersionArgs ==
    {<<FALSE, 0, 0>>} \cup {<<TRUE, vh[1], vh[2]>> : vh \in (0..MaxVersion) \X Hashes}

\* A request is immutable during the call.  The model fixes the tablet and
\* whether missing_version is set at the call, and each other field where the
\* code first reads it (the version fields in CheckVersion, the list of
\* missing versions on entry to the loop over it): the behaviours are those of
\* a request fixed as a whole at the call.
WithVersion(request, va) ==
    [request EXCEPT !.isset_version = va[1], !.version = va[2], !.version_hash = va[3]]

\* What is left of the request in the frame of a call that has returned.
Returned(request) ==
    Request(<<request.tablet_id, request.schema_hash>>, FALSE, 0, 0,
            request.isset_missing_version, <<>>)

NoRequest == Request(NoTablet, FALSE, 0, 0, FALSE, <<>>)

(***************************************************************************)
(* State.                                                                   *)
(***************************************************************************)
VARIABLES
    clock,              \* the wall clock, in seconds
    snapshot_base_id,   \* SnapshotManager::_snapshot_base_id
    snapshot_mutex,     \* holder of SnapshotManager::_snapshot_mutex
    rowsets,            \* per tablet: its committed rowsets
    meta_store,         \* per tablet: the rowset metas of its persisted header
    readers,            \* per tablet: the threads holding the header read lock
    writer,             \* per tablet: whether a writer holds the header lock
    fs,                 \* the file system: path -> content
    th,                 \* per worker thread: the frame of its make_snapshot call
    rel,                \* the last release_snapshot call: number, path, status
    writes,             \* commits and compactions so far
    faults,             \* injected collaborator failures so far
    sch                 \* the schema descriptor being decoded and encoded

vars == <<clock, snapshot_base_id, snapshot_mutex, rowsets, meta_store, readers,
          writer, fs, th, rel, writes, faults, sch>>

NullMeta == [alloc |-> FALSE, rs_metas |-> {}]

IdleFrame ==
    [pc |-> "idle", request |-> NoRequest, out_null |-> FALSE, ref_tablet |-> NoTablet,
     mode |-> "none", time_str |-> <<>>, snapshot_id_path |-> <<>>,
     snapshot_id |-> <<>>, header_locked |-> FALSE, version |-> 0,
     consistent_rowsets |-> <<>>, new_tablet_meta |-> NullMeta, idx |-> 0,
     res |-> OLAP_SUCCESS, failed_at |-> "none", snapshot_path |-> <<>>,
     rdlocks |-> 0, releases |-> 0]

\* No schema descriptor is being converted.
NoSchemaCall == [pc |-> "none"]

InitStorage ==
    /\ clock = 0
    /\ snapshot_base_id = 0
    /\ snapshot_mutex = NoThread
    /\ rowsets = [k \in TabletKeys |-> InitRowsets(k)]
    /\ meta_store = [k \in TabletKeys |-> {rowset_meta(r) : r \in InitRowsets(k)}]
    /\ readers = [k \in TabletKeys |-> {}]
    /\ writer = [k \in TabletKeys |-> FALSE]
    /\ fs = InitFs
    /\ th = [t \in Threads |-> IdleFrame]
    /\ rel = [n |-> 0, path |-> <<>>, res |-> OLAP_SUCCESS]
    /\ writes = 0
    /\ faults = 0

Init == InitStorage /\ sch = NoSchemaCall

(***************************************************************************)
(* The environment: the clock, writers of tablet metadata (ingestion and    *)
(* compaction) and the sweep of unused rowsets.                             *)
(***************************************************************************)
\* The tablets that ingestion and compaction work on; the other tablet is an
\* idle tablet without versions.
WrittenTablets == {<<1, 3>>}

\* A writer takes the header lock: no reader and no other writer holds it.
ObtainHeaderWrlock(k) ==
    /\ k \in WrittenTablets
    /\ writes < MaxWrites
    /\ ~writer[k]
    /\ readers[k] = {}
    /\ writer' = [writer EXCEPT ![k] = TRUE]
    /\ UNCHANGED <<clock, snapshot_base_id, snapshot_mutex, rowsets, meta_store,
                   readers, fs, th, rel, writes, faults, sch>>

MaxEnd(rs) == IF rs = {} THEN -1 ELSE CHOOSE e \in {r.end : r \in rs} : \A r \in rs : r.end <= e

\* Ingestion commits the next version as a singleton rowset and saves the
\* header, then releases the lock.
Commit(k, h) ==
    /\ writer[k]
    /\ MaxEnd(rowsets[k]) < MaxVersion
    /\ LET r == Rowset(MaxEnd(rowsets[k]) + 1, MaxEnd(rowsets[k]) + 1, h)
       IN /\ rowsets' = [rowsets EXCEPT ![k] = @ \cup {r}]
          /\ meta_store' = [meta_store EXCEPT ![k] = @ \cup {rowset_meta(r)}]
          /\ fs' = PutFile(fs, DataFile(k, r), FileContent(r))
    /\ writer' = [writer EXCEPT ![k] = FALSE]
    /\ writes' = writes + 1
    /\ UNCHANGED <<clock, snapshot_base_id, snapshot_mutex, readers, th, rel, faults, sch>>

\* Compaction replaces two adjacent rowsets by their merge and saves the
\* header, then releases the lock.  The files of the inputs stay on disk until
\* the sweep finds them unreferenced.
Compact(k, r1, r2) ==
    /\ writer[k]
    /\ r1 \in rowsets[k] /\ r2 \in rowsets[k]
    /\ r1.end + 1 = r2.start
    /\ LET r == Rowset(r1.start, r2.end, r2.hash)
       IN /\ rowsets' = [rowsets EXCEPT ![k] = (@ \ {r1, r2}) \cup {r}]
          /\ meta_store' = [meta_store EXCEPT
                              ![k] = (@ \ {rowset_meta(r1), rowset_meta(r2)}) \cup {rowset_meta(r)}]
          /\ fs' = PutFile(fs, DataFile(k, r), FileContent(r))
    /\ writer' = [writer EXCEPT ![k] = FALSE]
    /\ writes' = writes + 1
    /\ UNCHANGED <<clock, snapshot_base_id, snapshot_mutex, readers, th, rel, faults, sch>>

\* A reference that protects a rowset's files only while the holder also holds
\* the header lock.
ReferencedWhileLocked(k) ==
    UNION {{th[t].consistent_rowsets[i] : i \in DOMAIN th[t].consistent_rowsets} :
             t \in {u \in Threads : th[u].ref_tablet = k /\ th[u].header_locked}}

\* The rowsets of tablet k some make_snapshot call holds a shared pointer to.
Referenced(k) ==
    UNION {{th[t].consistent_rowsets[i] : i \in DOMAIN th[t].consistent_rowsets} :
             t \in {u \in Threads : th[u].ref_tablet = k}}

\* The sweep of unused rowsets removes the files of a rowset that is no longer
\* in its tablet and that nobody else holds a reference to.
SweepUnusedRowset(k, r) ==
    /\ DataFile(k, r) \in DOMAIN fs
    /\ r \notin rowsets[k]
    /\ r \notin Referenced(k)
    /\ fs' = RemoveTree(fs, DataFile(k, r))
    /\ UNCHANGED <<clock, snapshot_base_id, snapshot_mutex, rowsets, meta_store,
                   readers, writer, th, rel, writes, faults, sch>>

(***************************************************************************)
(* SnapshotManager::make_snapshot: argument check, tablet lookup, dispatch. *)
(***************************************************************************)
Fail(frame, code, where, next) ==
    [frame EXCEPT !.res = code, !.failed_at = where, !.pc = next]

\* A dispatch that ignores missing_version.
DispatchAlwaysFull(request) == "full"

\* Which builder make_snapshot dispatches to.
Dispatch(request) == IF request.isset_missing_version THEN "incremental" ELSE "full"

MakeSnapshot(t, k, isset_missing, out_null) ==
    /\ th[t].pc = "idle"
    /\ LET request == Request(k, FALSE, 0, 0, isset_missing, <<>>)
           f0 == [th[t] EXCEPT !.request = request, !.out_null = out_null]
           ref_tablet == get_tablet(request.tablet_id, request.schema_hash)
       IN th' = [th EXCEPT ![t] =
            IF out_null THEN Fail(f0, OLAP_ERR_INPUT_PARAMETER_ERROR, "output_slot", "done")
            ELSE IF ref_tablet = NoTablet
                 THEN Fail(f0, OLAP_ERR_TABLE_NOT_FOUND, "get_tablet", "done")
            ELSE [f0 EXCEPT !.ref_tablet = ref_tablet, !.mode = Dispatch(request),
                            !.pc = "gen_timestamp"]]
    /\ UNCHANGED <<clock, snapshot_base_id, snapshot_mutex, rowsets, meta_store,
                   readers, writer, fs, rel, writes, faults, sch>>

(***************************************************************************)
(* SnapshotManager::_calc_snapshot_id_path.                                 *)
(***************************************************************************)
\* gen_timestamp_string: the wall clock at second granularity, as digits.
gen_timestamp_string(now) == Dec(now)

\* The clock is read here and nowhere else, so the seconds that have passed
\* since the last reading pass with the reading.
GenTimestamp(t) ==
    /\ th[t].pc = "gen_timestamp"
    /\ \E ok \in BOOLEAN, now \in clock..MaxClock :
         /\ ok \/ faults < MaxFaults
         /\ faults' = IF ok THEN faults ELSE faults + 1
         /\ clock' = now
         /\ th' = [th EXCEPT ![t] =
              IF ok THEN [@ EXCEPT !.time_str = gen_timestamp_string(now), !.pc = "lock_id"]
              ELSE Fail(@, ERR_GEN_TIMESTAMP, "gen_timestamp", "done")]
    /\ UNCHANGED <<snapshot_base_id, snapshot_mutex, rowsets, meta_store,
                   readers, writer, fs, rel, writes, sch>>

\* MutexLock auto_lock(&_snapshot_mutex) blocks until the mutex is free.
\* A mutex that never makes a caller wait.
MutexAlwaysFree(t) == TRUE

MutexFree(t) == snapshot_mutex = NoThread

LockSnapshotMutex(t) ==
    /\ th[t].pc = "lock_id"
    /\ MutexFree(t)
    /\ snapshot_mutex' = t
    /\ th' = [th EXCEPT ![t].pc = "alloc_id"]
    /\ UNCHANGED <<clock, snapshot_base_id, rowsets, meta_store, readers, writer,
                   fs, rel, writes, faults, sch>>

\* root << SNAPSHOT_PREFIX << "/" << time_str << "." << id
SnapshotIdPath(k, time_str, id) ==
    storage_root_path_name(k) \o SNAPSHOT_PREFIX \o <<"/">> \o time_str \o <<".">> \o Dec(id)

\* A counter that is read but not incremented.
NextBaseIdStuck(id) == id

\* _snapshot_base_id++ leaves the counter one higher.
NextBaseId(id) == id + 1

\* Under the mutex: the path is built from the counter, the counter is
\* incremented, and the mutex is released as the function returns.
\* An allocation that returns with the mutex still held.
AllocSnapshotIdKeepsMutex(t) ==
    /\ th[t].pc = "alloc_id"
    /\ snapshot_base_id' = NextBaseId(snapshot_base_id)
    /\ th' = [th EXCEPT ![t].snapshot_id_path =
                            SnapshotIdPath(th[t].ref_tablet, th[t].time_str, snapshot_base_id),
                        ![t].pc = "create_dirs"]
    /\ UNCHANGED <<clock, snapshot_mutex, rowsets, meta_store, readers, writer, fs, rel,
                   writes, faults, sch>>

AllocSnapshotId(t) ==
    /\ th[t].pc = "alloc_id"
    /\ snapshot_base_id' = NextBaseId(snapshot_base_id)
    /\ snapshot_mutex' = NoThread
    /\ th' = [th EXCEPT ![t].snapshot_id_path =
                            SnapshotIdPath(th[t].ref_tablet, th[t].time_str, snapshot_base_id),
                        ![t].pc = "create_dirs"]
    /\ UNCHANGED <<clock, rowsets, meta_store, readers, writer, fs, rel,
                   writes, faults, sch>>

(***************************************************************************)
(* Both builders: the schema hash directory of the snapshot.                *)
(***************************************************************************)
get_schema_hash_full_path(k, location) ==
    location \o <<"/">> \o Dec(k[1]) \o <<"/">> \o Dec(k[2])

_get_header_full_path(k, schema_hash_path) ==
    schema_hash_path \o <<"/">> \o Dec(k[1]) \o HdrSuffix

SchemaFullPath(t) == get_schema_hash_full_path(th[t].ref_tablet, th[t].snapshot_id_path)

HeaderPath(t) == _get_header_full_path(th[t].ref_tablet, SchemaFullPath(t))

\* A stale schema hash directory is removed, then the directory is created.
\* A directory that is created over whatever is there.
PrepareDirAdditive(f, schema_full_path) == create_dirs(f, schema_full_path)

PrepareDir(f, schema_full_path) ==
    create_dirs(IF check_dir_existed(f, schema_full_path)
                THEN remove_all_dir(f, schema_full_path) ELSE f,
                schema_full_path)

CreateSnapshotDir(t) ==
    /\ th[t].pc = "create_dirs"
    /\ fs' = PrepareDir(fs, SchemaFullPath(t))
    /\ th' = [th EXCEPT ![t].snapshot_id = Join(canonical(th[t].snapshot_id_path)),
                        ![t].pc = "rdlock"]
    /\ UNCHANGED <<clock, snapshot_base_id, snapshot_mutex, rowsets, meta_store,
                   readers, writer, rel, writes, faults, sch>>

\* obtain_header_rdlock blocks while a writer holds the lock.
ObtainHeaderRdlock(t) ==
    /\ th[t].pc = "rdlock"
    /\ ~writer[th[t].ref_tablet]
    /\ readers' = [readers EXCEPT ![th[t].ref_tablet] = @ \cup {t}]
    /\ th' = [th EXCEPT ![t].header_locked = (th[t].mode = "full"),
                        ![t].rdlocks = @ + 1,
                        ![t].pc = IF th[t].mode = "full" THEN "check_version" ELSE "load_header_incr"]
    /\ UNCHANGED <<clock, snapshot_base_id, snapshot_mutex, rowsets, meta_store,
                   writer, fs, rel, writes, faults, sch>>

(***************************************************************************)
(* SnapshotManager::_create_snapshot_files: the full snapshot.              *)
(***************************************************************************)
\* What the builders never touch once the snapshot id is allocated.
engine == <<clock, snapshot_base_id, snapshot_mutex, rowsets, meta_store, writer,
            rel, writes, sch>>

NoRowset == Rowset(-1, -1, 0)

\* Tablet::rowset_with_max_version(): NULL for a tablet without versions.
rowset_with_max_version(rs) ==
    IF rs = {} THEN NoRowset ELSE CHOOSE r \in rs : \A q \in rs : q.end <= r.end

\* A check of the version that does not compare the fingerprints.
InvalidVersionNoHash(lastest_version, request) ==
    lastest_version.end < request.version

\* The check of an explicit request version against the latest rowset.
InvalidVersion(lastest_version, request) ==
    \/ lastest_version.end < request.version
    \/ /\ lastest_version.start = lastest_version.end
       /\ lastest_version.end = request.version
       /\ lastest_version.hash # request.version_hash

\* The snapshot version: request.version if specified, else the latest.
TargetVersion(lastest_version, request) ==
    IF request.isset_version THEN request.version ELSE lastest_version.end

CheckVersion(t) ==
    /\ th[t].pc = "check_version"
    /\ LET lastest_version == rowset_with_max_version(rowsets[th[t].ref_tablet])
       IN IF lastest_version = NoRowset
          THEN th' = [th EXCEPT ![t] =
                        Fail(@, OLAP_ERR_VERSION_NOT_EXIST, "no_version", "epilogue")]
          ELSE \E va \in VersionArgs :
                 LET request == WithVersion(th[t].request, va)
                 IN th' = [th EXCEPT ![t] =
                      IF request.isset_version /\ InvalidVersion(lastest_version, request)
                      THEN Fail([@ EXCEPT !.request = request],
                                OLAP_ERR_INPUT_PARAMETER_ERROR, "version_check", "epilogue")
                      ELSE [@ EXCEPT !.request = request,
                                     !.version = TargetVersion(lastest_version, request),
                                     !.pc = "capture"]]
    /\ UNCHANGED <<engine, readers, fs, faults>>

\* Tablet::capture_consistent_rowsets(Version(s, v)): the rowsets that cover
\* [s, v] exactly, in version order, or a failure when there is no such cover.
RECURSIVE capture_consistent_rowsets(_, _, _)
capture_consistent_rowsets(rs, s, v) ==
    IF s > v THEN [ok |-> TRUE, rowsets |-> <<>>]
    ELSE LET next == {r \in rs : r.start = s /\ r.end <= v}
         IN IF next = {} THEN [ok |-> FALSE, rowsets |-> <<>>]
            ELSE LET r == CHOOSE x \in next : \A q \in next : q.end <= x.end
                     rest == capture_consistent_rowsets(rs, r.end + 1, v)
                 IN [ok |-> rest.ok, rowsets |-> IF rest.ok THEN <<r>> \o rest.rowsets ELSE <<>>]

\* A capture of the versions up to the latest one, whatever the target.
CaptureRowsetsLatest(t) ==
    /\ th[t].pc = "capture"
    /\ LET got == capture_consistent_rowsets(rowsets[th[t].ref_tablet], 0,
                                             MaxEnd(rowsets[th[t].ref_tablet]))
       IN th' = [th EXCEPT ![t] =
            IF ~got.ok THEN Fail(@, ERR_CAPTURE_ROWSETS, "capture", "epilogue")
            ELSE [@ EXCEPT !.consistent_rowsets = got.rowsets, !.pc = "load_header"]]
    /\ UNCHANGED <<engine, readers, fs, faults>>

CaptureRowsets(t) ==
    /\ th[t].pc = "capture"
    /\ LET got == capture_consistent_rowsets(rowsets[th[t].ref_tablet], 0, th[t].version)
       IN th' = [th EXCEPT ![t] =
            IF ~got.ok THEN Fail(@, ERR_CAPTURE_ROWSETS, "capture", "epilogue")
            ELSE [@ EXCEPT !.consistent_rowsets = got.rowsets, !.pc = "load_header"]]
    /\ UNCHANGED <<engine, readers, fs, faults>>

\* new(nothrow) TabletMeta, then TabletMetaManager::get_header into it.
LoadHeader(t) ==
    /\ th[t].pc = "load_header"
    /\ \E outcome \in {"ok", "malloc", "get_header"} :
         /\ outcome = "ok" \/ faults < MaxFaults
         /\ faults' = IF outcome = "ok" THEN faults ELSE faults + 1
         /\ th' = [th EXCEPT ![t] =
              CASE outcome = "malloc" -> Fail(@, OLAP_ERR_MALLOC_ERROR, "malloc", "epilogue")
                [] outcome = "get_header" ->
                     Fail([@ EXCEPT !.new_tablet_meta = [alloc |-> TRUE, rs_metas |-> {}]],
                          ERR_GET_HEADER, "load_header", "epilogue")
                [] OTHER ->
                     [@ EXCEPT !.new_tablet_meta =
                                  [alloc |-> TRUE, rs_metas |-> meta_store[th[t].ref_tablet]],
                               !.pc = "unlock"]]
    /\ UNCHANGED <<engine, readers, fs>>

\* A full path that keeps the header lock until the end of the block.
ReleaseHeaderLockLate(t) ==
    /\ th[t].pc = "unlock"
    /\ th' = [th EXCEPT ![t].pc = "save_header"]
    /\ UNCHANGED <<engine, readers, fs, faults>>

\* ref_tablet->release_header_lock(); header_locked = false;
ReleaseHeaderLock(t) ==
    /\ th[t].pc = "unlock"
    /\ readers' = [readers EXCEPT ![th[t].ref_tablet] = @ \ {t}]
    /\ th' = [th EXCEPT ![t].header_locked = FALSE, ![t].releases = @ + 1,
                        ![t].pc = "save_header"]
    /\ UNCHANGED <<engine, fs, faults>>

\* TabletMeta::revise_rs_metas replaces the rowset metas of the header.
revise_rs_metas(tablet_meta, rs_metas) == [tablet_meta EXCEPT !.rs_metas = rs_metas]

\* A header that is saved as loaded, without the revision.
update_header_file_info_skipped(consistent_rowsets, tablet_meta) == tablet_meta

update_header_file_info(consistent_rowsets, tablet_meta) ==
    revise_rs_metas(tablet_meta,
                    {rowset_meta(consistent_rowsets[i]) : i \in DOMAIN consistent_rowsets})

\* A file can be created only in an existing directory.
CanCreateIn(f, dir_path) == IsDir(f, Lookup(f, dir_path)) /\ Lookup(f, dir_path) # <<>>

\* The header copy is revised to the captured rowsets and saved.
\* A save of the revised header that also replaces the tablet's own header.
SaveHeaderLive(t) ==
    /\ th[t].pc = "save_header"
    /\ LET meta == update_header_file_info(th[t].consistent_rowsets, th[t].new_tablet_meta)
       IN /\ CanCreateIn(fs, SchemaFullPath(t))
          /\ fs' = PutFile(fs, Lookup(fs, HeaderPath(t)), HdrContent(meta.rs_metas))
          /\ meta_store' = [meta_store EXCEPT ![th[t].ref_tablet] = meta.rs_metas]
          /\ th' = [th EXCEPT ![t] = [@ EXCEPT !.new_tablet_meta = meta, !.idx = 1, !.pc = "link"]]
    /\ UNCHANGED <<clock, snapshot_base_id, snapshot_mutex, rowsets, writer, rel, writes,
                   readers, faults, sch>>

SaveHeader(t) ==
    /\ th[t].pc = "save_header"
    /\ LET meta == update_header_file_info(th[t].consistent_rowsets, th[t].new_tablet_meta)
       IN \E ok \in BOOLEAN :
            /\ ok => CanCreateIn(fs, SchemaFullPath(t))
            /\ ok \/ faults < MaxFaults \/ ~CanCreateIn(fs, SchemaFullPath(t))
            /\ faults' = IF ok \/ ~CanCreateIn(fs, SchemaFullPath(t)) THEN faults ELSE faults + 1
            /\ fs' = IF ok THEN PutFile(fs, Lookup(fs, HeaderPath(t)), HdrContent(meta.rs_metas))
                     ELSE fs
            /\ th' = [th EXCEPT ![t] =
                 IF ok THEN [@ EXCEPT !.new_tablet_meta = meta, !.idx = 1, !.pc = "link"]
                 ELSE Fail([@ EXCEPT !.new_tablet_meta = meta],
                           ERR_SAVE_HEADER, "save_header", "epilogue")]
    /\ UNCHANGED <<engine, readers>>

\* Rowset::make_snapshot(dir): hard links of the rowset's files into dir.  It
\* needs the rowset's files and the target directory to exist.
CanLink(f, k, r, dir_path) == DataFile(k, r) \in DOMAIN f /\ CanCreateIn(f, dir_path)

LinkFile(f, k, r, dir_path) ==
    PutFile(f, Append(Lookup(f, dir_path), RowsetFile(r)), f[DataFile(k, r)])

\* _link_index_and_data_files: one rowset per step, in the order captured.
LinkRowset(t) ==
    /\ th[t].pc = "link"
    /\ LET k == th[t].ref_tablet
           rs == th[t].consistent_rowsets[th[t].idx]
           can == CanLink(fs, k, rs, SchemaFullPath(t))
       IN \E ok \in BOOLEAN :
            /\ ok => can
            /\ ok \/ faults < MaxFaults \/ ~can
            /\ faults' = IF ok \/ ~can THEN faults ELSE faults + 1
            /\ fs' = IF ok THEN LinkFile(fs, k, rs, SchemaFullPath(t)) ELSE fs
            /\ th' = [th EXCEPT ![t] =
                 IF ~ok THEN Fail(@, ERR_ROWSET_LINK, "link", "epilogue")
                 ELSE IF th[t].idx < Len(th[t].consistent_rowsets)
                      THEN [@ EXCEPT !.idx = th[t].idx + 1]
                 ELSE [@ EXCEPT !.pc = "append_delta"]]
    /\ UNCHANGED <<engine, readers>>

\* Whether the request version is the end of a cumulative rowset of the cover:
\* the first rowset that ends at request.version starts elsewhere.
NeedsSingleDelta(request, consistent_rowsets) ==
    /\ request.isset_version
    /\ \E i \in DOMAIN consistent_rowsets :
         /\ consistent_rowsets[i].end = request.version
         /\ \A j \in 1..(i - 1) : consistent_rowsets[j].end # request.version
         /\ consistent_rowsets[i].start # request.version

\* _append_single_delta: loads the stored header and the tablet built from it;
\* the push of the empty version is disabled, so success changes nothing.
_append_single_delta(outcome) ==
    CASE outcome = "malloc" -> OLAP_ERR_MALLOC_ERROR
      [] outcome = "get_header" -> ERR_GET_HEADER
      [] outcome = "create_tablet" -> OLAP_ERR_INPUT_PARAMETER_ERROR
      [] outcome = "load" -> ERR_TABLET_LOAD
      [] OTHER -> OLAP_SUCCESS

AppendSingleDelta(t) ==
    /\ th[t].pc = "append_delta"
    /\ IF NeedsSingleDelta(th[t].request, th[t].consistent_rowsets)
       THEN \E outcome \in {"ok", "malloc", "get_header", "create_tablet", "load"} :
              /\ outcome = "ok" \/ faults < MaxFaults
              /\ faults' = IF outcome = "ok" THEN faults ELSE faults + 1
              /\ th' = [th EXCEPT ![t] =
                   IF outcome = "ok" THEN [@ EXCEPT !.pc = "epilogue"]
                   ELSE Fail(@, _append_single_delta(outcome), "append_delta", "epilogue")]
       ELSE /\ th' = [th EXCEPT ![t].pc = "epilogue"]
            /\ faults' = faults
    /\ UNCHANGED <<engine, readers, fs>>

\* The end of the do-while block: the rowset pointers go out of scope, the
\* header copy is deleted and the lock is released if it is still held.  The
\* frame keeps idx, the position at which the linking loop was left.
\* An end of the block that releases the lock whether or not it is held.
EpilogueAlwaysReleases(t) ==
    /\ th[t].pc = "epilogue"
    /\ readers' = [readers EXCEPT ![th[t].ref_tablet] = @ \ {t}]
    /\ th' = [th EXCEPT ![t].consistent_rowsets = <<>>, ![t].new_tablet_meta = NullMeta,
                        ![t].releases = @ + 1,
                        ![t].header_locked = FALSE, ![t].pc = "finish"]
    /\ UNCHANGED <<engine, fs, faults>>

Epilogue(t) ==
    /\ th[t].pc = "epilogue"
    /\ readers' = IF th[t].header_locked
                  THEN [readers EXCEPT ![th[t].ref_tablet] = @ \ {t}] ELSE readers
    /\ th' = [th EXCEPT ![t].consistent_rowsets = <<>>, ![t].new_tablet_meta = NullMeta,
                        ![t].releases = IF th[t].header_locked THEN @ + 1 ELSE @,
                        ![t].header_locked = FALSE, ![t].pc = "finish"]
    /\ UNCHANGED <<engine, fs, faults>>

\* A failure exit that leaves the snapshot id directory in place.
RollbackSkipped(f, snapshot_id_path) == f

\* On failure the snapshot id directory is removed if it exists.
\* A rollback that removes the directory holding the snapshot id directory.
RollbackParent(f, snapshot_id_path) ==
    IF check_dir_existed(f, snapshot_id_path)
    THEN RemoveTree(f, Parent(Lookup(f, snapshot_id_path))) ELSE f

Rollback(f, snapshot_id_path) ==
    IF check_dir_existed(f, snapshot_id_path) THEN remove_all_dir(f, snapshot_id_path) ELSE f

\* The tail of both builders: rollback on failure, the path on success.
Finish(t) ==
    /\ th[t].pc = "finish"
    /\ fs' = IF th[t].res # OLAP_SUCCESS THEN Rollback(fs, th[t].snapshot_id_path) ELSE fs
    /\ th' = [th EXCEPT ![t].snapshot_path =
                            IF th[t].res = OLAP_SUCCESS THEN th[t].snapshot_id ELSE <<>>,
                        ![t].snapshot_id = <<>>, ![t].time_str = <<>>,
                        ![t].version = 0, ![t].request = Returned(th[t].request),
                        ![t].pc = "done"]
    /\ UNCHANGED <<engine, readers, faults>>

(***************************************************************************)
(* SnapshotManager::_create_incremental_snapshot_files.                     *)
(***************************************************************************)
\* TabletMetaManager::get_header into the TabletMeta on the stack.
\* An incremental path that releases the header lock once the header is
\* loaded, as the full path does.
LoadHeaderIncrUnlocks(t) ==
    /\ th[t].pc = "load_header_incr"
    /\ readers' = [readers EXCEPT ![th[t].ref_tablet] = @ \ {t}]
    /\ th' = [th EXCEPT ![t] =
         [@ EXCEPT !.new_tablet_meta =
                      [alloc |-> TRUE, rs_metas |-> meta_store[th[t].ref_tablet]],
                   !.releases = @ + 1,
                   !.pc = "save_header_incr"]]
    /\ UNCHANGED <<engine, fs, faults>>

LoadHeaderIncr(t) ==
    /\ th[t].pc = "load_header_incr"
    /\ \E ok \in BOOLEAN :
         /\ ok \/ faults < MaxFaults
         /\ faults' = IF ok THEN faults ELSE faults + 1
         /\ th' = [th EXCEPT ![t] =
              IF ok THEN [@ EXCEPT !.new_tablet_meta =
                                     [alloc |-> TRUE, rs_metas |-> meta_store[th[t].ref_tablet]],
                                   !.pc = "save_header_incr"]
              ELSE Fail(@, ERR_GET_HEADER, "load_header", "unlock_incr")]
    /\ UNCHANGED <<engine, readers, fs>>

\* remove_dir(header_path) after a failed save.
remove_dir(f, s) == remove_all_dir(f, s)

\* The header is saved as loaded.
\* An incremental path that saves the header revised as the full path does,
\* to the rowsets it has captured, which are none.
SaveHeaderIncrRevised(t) ==
    /\ th[t].pc = "save_header_incr"
    /\ \E missing_version \in MissingLists :
         LET meta == update_header_file_info(th[t].consistent_rowsets, th[t].new_tablet_meta)
         IN /\ CanCreateIn(fs, SchemaFullPath(t))
            /\ fs' = PutFile(fs, Lookup(fs, HeaderPath(t)), HdrContent(meta.rs_metas))
            /\ th' = [th EXCEPT ![t] =
                 IF missing_version = <<>> THEN [@ EXCEPT !.pc = "unlock_incr"]
                 ELSE [@ EXCEPT !.request.missing_version = missing_version,
                                !.idx = 1, !.pc = "link_incr"]]
    /\ UNCHANGED <<engine, readers, faults>>

SaveHeaderIncr(t) ==
    /\ th[t].pc = "save_header_incr"
    /\ \E ok \in BOOLEAN, missing_version \in MissingLists :
         /\ ok => CanCreateIn(fs, SchemaFullPath(t))
         /\ ok \/ faults < MaxFaults \/ ~CanCreateIn(fs, SchemaFullPath(t))
         /\ ~ok => missing_version = <<>>
         /\ faults' = IF ok \/ ~CanCreateIn(fs, SchemaFullPath(t)) THEN faults ELSE faults + 1
         /\ fs' = IF ok THEN PutFile(fs, Lookup(fs, HeaderPath(t)),
                                     HdrContent(th[t].new_tablet_meta.rs_metas))
                  ELSE remove_dir(fs, HeaderPath(t))
         /\ th' = [th EXCEPT ![t] =
              IF ~ok THEN Fail(@, ERR_SAVE_HEADER, "save_header", "unlock_incr")
              ELSE IF missing_version = <<>> THEN [@ EXCEPT !.pc = "unlock_incr"]
              ELSE [@ EXCEPT !.request.missing_version = missing_version,
                             !.idx = 1, !.pc = "link_incr"]]
    /\ UNCHANGED <<engine, readers>>

\* Tablet::get_rowset_by_version(version): the rowset with exactly that
\* version range, or NULL.
get_rowset_by_version(rs, version) ==
    IF \E r \in rs : <<r.start, r.end>> = version
    THEN CHOOSE r \in rs : <<r.start, r.end>> = version
    ELSE NoRowset

\* A loop over request.missing_version that skips a version without rowset
\* and goes on with the next one.
LinkMissingVersionSkip(t) ==
    /\ th[t].pc = "link_incr"
    /\ LET k == th[t].ref_tablet
           missed_version == th[t].request.missing_version[th[t].idx]
           rowset == get_rowset_by_version(rowsets[k], <<missed_version, missed_version>>)
           more == th[t].idx < Len(th[t].request.missing_version)
       IN /\ fs' = IF rowset # NoRowset /\ CanLink(fs, k, rowset, SchemaFullPath(t))
                   THEN LinkFile(fs, k, rowset, SchemaFullPath(t)) ELSE fs
          /\ th' = [th EXCEPT ![t] =
               IF more THEN [@ EXCEPT !.idx = th[t].idx + 1]
               ELSE [@ EXCEPT !.pc = "unlock_incr"]]
    /\ UNCHANGED <<engine, readers, faults>>

\* One iteration of the loop over request.missing_version.
LinkMissingVersion(t) ==
    /\ th[t].pc = "link_incr"
    /\ LET k == th[t].ref_tablet
           missed_version == th[t].request.missing_version[th[t].idx]
           rowset == get_rowset_by_version(rowsets[k], <<missed_version, missed_version>>)
           can == rowset # NoRowset /\ CanLink(fs, k, rowset, SchemaFullPath(t))
           more == th[t].idx < Len(th[t].request.missing_version)
       IN IF rowset = NoRowset
          THEN /\ th' = [th EXCEPT ![t] =
                    Fail(@, OLAP_ERR_VERSION_NOT_EXIST, "missing_version", "unlock_incr")]
               /\ UNCHANGED <<fs, faults>>
          ELSE \E ok \in BOOLEAN :
                 /\ ok => can
                 /\ ok \/ faults < MaxFaults \/ ~can
                 /\ faults' = IF ok \/ ~can THEN faults ELSE faults + 1
                 /\ fs' = IF ok THEN LinkFile(fs, k, rowset, SchemaFullPath(t)) ELSE fs
                 /\ th' = [th EXCEPT ![t] =
                      IF ~ok THEN Fail(@, ERR_ROWSET_LINK, "link", "unlock_incr")
                      ELSE IF more THEN [@ EXCEPT !.idx = th[t].idx + 1]
                      ELSE [@ EXCEPT !.pc = "unlock_incr"]]
    /\ UNCHANGED <<engine, readers>>

\* ref_tablet->release_header_lock() after the do-while block.
ReleaseHeaderLockIncr(t) ==
    /\ th[t].pc = "unlock_incr"
    /\ readers' = [readers EXCEPT ![th[t].ref_tablet] = @ \ {t}]
    /\ th' = [th EXCEPT ![t].new_tablet_meta = NullMeta, ![t].releases = @ + 1,
                        ![t].pc = "finish"]
    /\ UNCHANGED <<engine, fs, faults>>

(***************************************************************************)
(* SnapshotManager::release_snapshot.                                       *)
(***************************************************************************)
\* The test of one store: the path starts with the store's canonical path,
\* followed by SNAPSHOT_PREFIX.  The second compare is evaluated only when the
\* first one matched, so its position is within the path.
ReleaseMatches(snapshot_path, store) ==
    LET abs_path == Join(canonical(store))
    IN /\ StrCompareEq(snapshot_path, 0, Len(abs_path), abs_path)
       /\ StrCompareEq(snapshot_path, Len(abs_path), Len(SNAPSHOT_PREFIX), SNAPSHOT_PREFIX)

\* The loop over the stores: the status returned and the file system left.
RECURSIVE ReleaseLoop(_, _, _)
ReleaseLoop(f, stores, snapshot_path) ==
    IF stores = <<>> THEN [res |-> OLAP_ERR_CE_CMD_PARAMS_ERROR, fs |-> f]
    ELSE IF ReleaseMatches(snapshot_path, Head(stores))
         THEN [res |-> OLAP_SUCCESS, fs |-> remove_all_dir(f, snapshot_path)]
    ELSE ReleaseLoop(f, Tail(stores), snapshot_path)

\* A release that removes the path before it looks at the stores.
release_snapshot_remove_first(f, snapshot_path) ==
    [res |-> ReleaseLoop(f, Stores, snapshot_path).res, fs |-> remove_all_dir(f, snapshot_path)]

\* A release that validates the path and forgets the removal.
release_snapshot_keep(f, snapshot_path) ==
    [res |-> ReleaseLoop(f, Stores, snapshot_path).res, fs |-> f]

release_snapshot(f, snapshot_path) == ReleaseLoop(f, Stores, snapshot_path)

\* The paths successful make_snapshot calls have returned.
ReturnedPaths ==
    {th[t].snapshot_path : t \in {u \in Threads : th[u].pc = "done" /\ th[u].res = OLAP_SUCCESS}}

\* Other paths a caller may pass: a tablet's data directory, and a snapshot
\* path under a path that is no registered store.
ForeignPaths ==
    {Join(TabletDataDir(k)) : k \in TabletKeys}
    \cup {<<"/", "c">> \o SNAPSHOT_PREFIX \o <<"/", "0", ".", "0">>}

\* Paths that begin like a store's snapshot directory: the directory itself,
\* a sibling whose name begins with "snapshot", and a path that leaves the
\* directory through "..".
HostilePaths ==
    UNION {{Stores[i] \o SNAPSHOT_PREFIX,
            Stores[i] \o <<"/">> \o SiblingDirName,
            Stores[i] \o SNAPSHOT_PREFIX \o <<"/", ".", ".", "/">> \o DataDirName} :
           i \in DOMAIN Stores}

ReleaseSnapshot(snapshot_path) ==
    /\ rel.n < MaxReleases
    /\ LET out == release_snapshot(fs, snapshot_path)
       IN /\ fs' = out.fs
          /\ rel' = [n |-> rel.n + 1, path |-> snapshot_path, res |-> out.res]
    /\ UNCHANGED <<clock, snapshot_base_id, snapshot_mutex, rowsets, meta_store,
                   readers, writer, th, writes, faults, sch>>

(***************************************************************************)
(* Specifications.                                                          *)
(***************************************************************************)
\* The rowsets whose files are in the data directory of tablet k.
OnDisk(k) ==
    {fs[p].rowset : p \in {q \in DOMAIN fs : Parent(q) = TabletDataDir(k) /\ fs[q].kind = "file"}}

\* The steps of the builders, from the timestamp to the return.
BuilderStep(t) ==
    \/ GenTimestamp(t)
    \/ LockSnapshotMutex(t)
    \/ AllocSnapshotId(t)
    \/ CreateSnapshotDir(t)
    \/ ObtainHeaderRdlock(t)
    \/ CheckVersion(t)
    \/ CaptureRowsets(t)
    \/ LoadHeader(t)
    \/ ReleaseHeaderLock(t)
    \/ SaveHeader(t)
    \/ LinkRowset(t)
    \/ AppendSingleDelta(t)
    \/ Epilogue(t)
    \/ Finish(t)
    \/ LoadHeaderIncr(t)
    \/ SaveHeaderIncr(t)
    \/ LinkMissingVersion(t)
    \/ ReleaseHeaderLockIncr(t)

ThreadStep(t) ==
    \/ \E k \in ReqKeys, isset_missing \in BOOLEAN, out_null \in BOOLEAN :
         MakeSnapshot(t, k, isset_missing, out_null)
    \/ BuilderStep(t)

WriterStep(k) ==
    \/ ObtainHeaderWrlock(k)
    \/ \E h \in Hashes : Commit(k, h)
    \/ \E r1 \in rowsets[k], r2 \in rowsets[k] : Compact(k, r1, r2)
    \/ \E r \in OnDisk(k) : SweepUnusedRowset(k, r)

\* A make_snapshot call of one worker, concurrent with ingestion, compaction
\* and the sweep, and with release_snapshot calls of a caller that passes the
\* paths it was given or paths that do not begin like a snapshot directory.
Next ==
    \/ \E k \in TabletKeys : WriterStep(k)
    \/ ThreadStep("w1")
    \/ \E p \in ReturnedPaths \cup ForeignPaths : ReleaseSnapshot(p)

Spec == Init /\ [][Next]_vars

\* A make_snapshot call of one worker on tablets that are not being written,
\* and release_snapshot calls of callers that pass any path.
NextAnyPath ==
    \/ ThreadStep("w1")
    \/ \E p \in ReturnedPaths \cup ForeignPaths \cup HostilePaths : ReleaseSnapshot(p)

SpecAnyPath == Init /\ [][NextAnyPath]_vars

\* The make_snapshot calls of two workers, concurrent with each other, on
\* tablets that are not being written.
NextConcurrent == \E t \in Threads : ThreadStep(t)

SpecConcurrent == Init /\ [][NextConcurrent]_vars

(***************************************************************************)
(* The schema descriptor: TabletColumn and TabletSchema, decoded from and   *)
(* encoded to their protobuf messages.  A message is a record of its field  *)
(* values, an absent optional field having its default and, where the code  *)
(* asks for presence, a has_ flag.                                          *)
(***************************************************************************)
\* The longest column list of a schema message.
MaxColumns == 2

\* A member no statement has assigned; an assigned one is <<value>>.
Uninit == <<>>

\* What a read of an unassigned member yields.
GarbageInts == {0, 5}

Garbage == [is_decimal : BOOLEAN, precision : GarbageInts, frac : GarbageInts]

\* The value read from member m: its value, or the indeterminate one.
ReadMember(m, indeterminate) == IF m = Uninit THEN indeterminate ELSE m[1]

\* FieldInfo::get_field_type_by_string: the type of a known name, and
\* OLAP_FIELD_TYPE_UNKNOWN for any other string.
get_field_type_by_string(type_str) ==
    IF type_str = "INT" THEN "OLAP_FIELD_TYPE_INT"
    ELSE IF type_str = "DECIMAL" THEN "OLAP_FIELD_TYPE_DECIMAL"
    ELSE "OLAP_FIELD_TYPE_UNKNOWN"

\* FieldInfo::get_string_by_field_type.
get_string_by_field_type(type) ==
    IF type = "OLAP_FIELD_TYPE_INT" THEN "INT"
    ELSE IF type = "OLAP_FIELD_TYPE_DECIMAL" THEN "DECIMAL"
    ELSE "UNKNOWN"

BLOOM_FILTER_DEFAULT_FPP == 5    \* in hundredths

\* A ColumnPB nothing has been set in.
EmptyColumnPB ==
    [unique_id |-> 0, name |-> "", type |-> "", is_key |-> FALSE, is_nullable |-> FALSE,
     has_default_value |-> FALSE, default_value |-> "",
     has_precision |-> FALSE, precision |-> 0, has_frac |-> FALSE, frac |-> 0,
     length |-> 0, index_length |-> 0, is_bf_column |-> FALSE,
     has_referenced_column_id |-> FALSE, referenced_column_id |-> 0]

\* The kinds of column the messages describe: a key, a nullable value with a
\* bloom filter, and a column of a type this build does not know.
ColumnShapes ==
    {[type |-> "INT", is_key |-> TRUE, is_nullable |-> FALSE, is_bf_column |-> FALSE],
     [type |-> "DECIMAL", is_key |-> FALSE, is_nullable |-> TRUE, is_bf_column |-> TRUE],
     [type |-> "JSONB", is_key |-> FALSE, is_nullable |-> FALSE, is_bf_column |-> FALSE]}

\* The column messages, before their unique ids are given.
ColumnPBs ==
    {[EmptyColumnPB EXCEPT
        !.name = "c", !.type = s.type, !.is_key = s.is_key,
        !.is_nullable = s.is_nullable, !.is_bf_column = s.is_bf_column,
        !.has_default_value = d, !.default_value = IF d THEN "1" ELSE "",
        !.has_precision = p, !.precision = IF p THEN 9 ELSE 0,
        !.has_frac = f, !.frac = IF f THEN 3 ELSE 0,
        !.length = 16, !.index_length = il,
        !.has_referenced_column_id = r, !.referenced_column_id = IF r THEN 7 ELSE 0] :
     s \in ColumnShapes, d \in BOOLEAN, p \in BOOLEAN, f \in BOOLEAN,
     il \in {16, 8}, r \in BOOLEAN}

\* A TabletSchemaPB nothing has been set in.
EmptySchemaPB ==
    [column |-> <<>>, num_short_key_columns |-> 0, num_rows_per_row_block |-> 0,
     keys_type |-> "", compress_kind |-> "", has_bf_fpp |-> FALSE, bf_fpp |-> 0,
     next_column_unique_id |-> 0]

\* The schema messages: up to MaxColumns columns, numbered in order.
TabletSchemaPBs ==
    {[EmptySchemaPB EXCEPT
        !.column = [i \in DOMAIN cs |-> [cs[i] EXCEPT !.unique_id = i]],
        !.num_short_key_columns = 1, !.num_rows_per_row_block = 1024,
        !.keys_type = "DUP_KEYS", !.compress_kind = "COMPRESS_LZ4",
        !.has_bf_fpp = b, !.bf_fpp = IF b THEN 3 ELSE 0,
        !.next_column_unique_id = Len(cs) + 1] :
     cs \in UNION {[1..n -> ColumnPBs] : n \in 0..MaxColumns}, b \in BOOLEAN}

\* TabletColumn::init_from_pb on a default-constructed TabletColumn: the
\* members after the call.  _is_decimal is assigned only when the message has
\* a precision, _precision is assigned from the precision and then from the
\* frac, _frac is not assigned, and _index_length is assigned from the length.
TabletColumn_init_from_pb(column) ==
    [unique_id |-> column.unique_id,
     col_name |-> column.name,
     type |-> get_field_type_by_string(column.type),
     is_key |-> column.is_key,
     is_nullable |-> column.is_nullable,
     has_default_value |-> column.has_default_value,
     default_value |-> IF column.has_default_value THEN column.default_value ELSE "",
     is_decimal |-> IF column.has_precision THEN <<TRUE>> ELSE Uninit,
     precision |-> IF column.has_frac THEN <<column.frac>>
                   ELSE IF column.has_precision THEN <<column.precision>>
                   ELSE Uninit,
     frac |-> Uninit,
     length |-> column.length,
     index_length |-> column.length,
     is_bf_column |-> column.is_bf_column,
     has_referenced_column |-> column.has_referenced_column_id,
     referenced_column_id |-> IF column.has_referenced_column_id
                              THEN <<column.referenced_column_id>> ELSE Uninit]

\* TabletColumn::to_schema_pb into a new ColumnPB, g being what the reads of
\* unassigned members yield.  The default value is not written.
TabletColumn_to_schema_pb(self, g) ==
    LET is_decimal == ReadMember(self.is_decimal, g.is_decimal)
    IN [EmptyColumnPB EXCEPT
          !.unique_id = self.unique_id,
          !.name = self.col_name,
          !.type = get_string_by_field_type(self.type),
          !.is_key = self.is_key,
          !.is_nullable = self.is_nullable,
          !.has_precision = is_decimal,
          !.precision = IF is_decimal THEN ReadMember(self.precision, g.precision) ELSE 0,
          !.has_frac = is_decimal,
          !.frac = IF is_decimal THEN ReadMember(self.frac, g.frac) ELSE 0,
          !.length = self.length,
          !.index_length = self.index_length,
          !.is_bf_column = self.is_bf_column,
          !.has_referenced_column_id = self.has_referenced_column,
          !.referenced_column_id = IF self.has_referenced_column
                                   THEN self.referenced_column_id[1] ELSE 0]

\* TabletSchema::TabletSchema().
NewTabletSchema ==
    [cols |-> <<>>, num_columns |-> 0, num_key_columns |-> 0, num_null_columns |-> 0,
     num_short_key_columns |-> 0, num_rows_per_row_block |-> Uninit,
     keys_type |-> Uninit, compress_kind |-> Uninit,
     next_column_unique_id |-> Uninit, bf_fpp |-> Uninit]

\* A new TabletSchema is about to be initialised from the message schema.
SchemaCall(schema) ==
    [pc |-> "init_from_pb", schema |-> schema, self |-> NewTabletSchema, i |-> 1,
     tablet_meta_pb |-> EmptySchemaPB]

InitSchema == InitStorage /\ sch \in {SchemaCall(schema) : schema \in TabletSchemaPBs}

storage == <<clock, snapshot_base_id, snapshot_mutex, rowsets, meta_store, readers,
             writer, fs, th, rel, writes, faults>>

\* TabletSchema::init_from_pb, one turn of its loop over the columns.
InitColumnFromPb ==
    /\ sch.pc = "init_from_pb"
    /\ sch.i <= Len(sch.schema.column)
    /\ LET column == TabletColumn_init_from_pb(sch.schema.column[sch.i])
       IN sch' = [sch EXCEPT
                    !.self.cols = Append(@, column),
                    !.self.num_columns = @ + 1,
                    !.self.num_key_columns = IF column.is_key THEN @ + 1 ELSE @,
                    !.self.num_null_columns = IF column.is_nullable THEN @ + 1 ELSE @,
                    !.i = @ + 1]
    /\ UNCHANGED storage

\* TabletSchema::init_from_pb after the loop, and its return.
InitSchemaFieldsFromPb ==
    /\ sch.pc = "init_from_pb"
    /\ sch.i > Len(sch.schema.column)
    /\ sch' = [sch EXCEPT
                 !.self.num_short_key_columns = sch.schema.num_short_key_columns,
                 !.self.num_rows_per_row_block = <<sch.schema.num_rows_per_row_block>>,
                 !.self.keys_type = <<sch.schema.keys_type>>,
                 !.self.compress_kind = <<sch.schema.compress_kind>>,
                 !.self.next_column_unique_id = <<sch.schema.next_column_unique_id>>,
                 !.self.bf_fpp = IF sch.schema.has_bf_fpp THEN <<sch.schema.bf_fpp>>
                                 ELSE <<BLOOM_FILTER_DEFAULT_FPP>>,
                 !.pc = "to_schema_pb", !.i = 1]
    /\ UNCHANGED storage

\* TabletSchema::to_schema_pb, one turn of its loop over _cols.
ColumnToSchemaPb ==
    /\ sch.pc = "to_schema_pb"
    /\ sch.i <= Len(sch.self.cols)
    /\ \E g \in Garbage :
         sch' = [sch EXCEPT
                   !.tablet_meta_pb.column =
                       Append(@, TabletColumn_to_schema_pb(sch.self.cols[sch.i], g)),
                   !.i = @ + 1]
    /\ UNCHANGED storage

\* TabletSchema::to_schema_pb after the loop, and its return.
SchemaFieldsToSchemaPb ==
    /\ sch.pc = "to_schema_pb"
    /\ sch.i > Len(sch.self.cols)
    /\ sch' = [sch EXCEPT
                 !.tablet_meta_pb.num_short_key_columns = sch.self.num_short_key_columns,
                 !.tablet_meta_pb.num_rows_per_row_block = sch.self.num_rows_per_row_block[1],
                 !.tablet_meta_pb.keys_type = sch.self.keys_type[1],
                 !.tablet_meta_pb.compress_kind = sch.self.compress_kind[1],
                 !.tablet_meta_pb.has_bf_fpp = TRUE,
                 !.tablet_meta_pb.bf_fpp = sch.self.bf_fpp[1],
                 !.tablet_meta_pb.next_column_unique_id = sch.self.next_column_unique_id[1],
                 !.pc = "done"]
    /\ UNCHANGED storage

\* A schema message decoded into a new TabletSchema and encoded again.
NextSchema ==
    \/ InitColumnFromPb
    \/ InitSchemaFieldsFromPb
    \/ ColumnToSchemaPb
    \/ SchemaFieldsToSchemaPb

SpecSchema == InitSchema /\ [][NextSchema]_vars

(***************************************************************************)
(* Progress: a full and an incremental make_snapshot call on the tablet     *)
(* that is written, each with an output slot, concurrent with each other    *)
(* and with writers that take the header lock and release it.               *)
(***************************************************************************)
\* A writer releases the header lock and leaves the header as it is.
ReleaseHeaderWrlock(k) ==
    /\ writer[k]
    /\ writer' = [writer EXCEPT ![k] = FALSE]
    /\ UNCHANGED <<clock, snapshot_base_id, snapshot_mutex, rowsets, meta_store, readers,
                   fs, th, rel, writes, faults, sch>>

\* The worker whose call is the incremental one.
IncrementalCaller == "w2"

LiveStep(t) ==
    \/ \E k \in WrittenTablets : MakeSnapshot(t, k, t = IncrementalCaller, FALSE)
    \/ BuilderStep(t)

NextLive ==
    \/ \E k \in TabletKeys : ObtainHeaderWrlock(k)
    \/ \E k \in TabletKeys : ReleaseHeaderWrlock(k)
    \/ \E t \in Threads : LiveStep(t)

\* What the locks are assumed to guarantee: a thread that can again and
\* again take the id mutex or the header read lock gets it, and a writer
\* does not hold the header lock for ever.
LockFairness ==
    /\ \A t \in Threads : SF_vars(LockSnapshotMutex(t)) /\ SF_vars(ObtainHeaderRdlock(t))
    /\ \A k \in TabletKeys : WF_vars(ReleaseHeaderWrlock(k))

SpecLive == Init /\ [][NextLive]_vars /\ LockFairness

(***************************************************************************)
(* Properties.                                                              *)
(***************************************************************************)
\* The make_snapshot call of thread t has returned.
Done(t) == th[t].pc = "done"

\* Path p (as components) lies strictly under the snapshot directory of a
\* registered store.
UnderSnapshotDir(p) ==
    \E i \in DOMAIN Stores :
        LET dir == canonical(Stores[i]) \o <<SnapshotDirName>>
        IN IsPrefix(dir, p) /\ Len(p) > Len(dir)

\* Path string s names something in a store whose name begins with
\* "snapshot" but that is not the snapshot directory.
PrefixSimilar(s) ==
    \E i \in DOMAIN Stores :
        LET root == canonical(Stores[i])
            c == canonical(s)
        IN /\ IsPrefix(root, c) /\ Len(c) > Len(root)
           /\ c[Len(root) + 1] # SnapshotDirName
           /\ IsPrefix(SnapshotDirName, c[Len(root) + 1])

\* Nothing is left of the snapshot id directory of thread t.
SnapshotDirAbsent(t) ==
    \A p \in DOMAIN fs : ~IsPrefix(canonical(th[t].snapshot_id_path), p)

\* The rowsets whose files are in the schema hash directory of t's snapshot.
LinkedIn(t) ==
    {fs[p].rowset : p \in {q \in DOMAIN fs : /\ Parent(q) = canonical(SchemaFullPath(t))
                                              /\ fs[q].kind = "file"}}

\* The rowsets of cover tile the versions lo..hi.
Tiles(cover, lo, hi) ==
    /\ \A r \in cover : lo <= r.start /\ r.start <= r.end /\ r.end <= hi
    /\ \A v \in lo..hi : Cardinality({r \in cover : r.start <= v /\ v <= r.end}) = 1

\* C1: release_snapshot deletes only when the canonical form of the path it
\* is given lies strictly under the snapshot directory of a registered store,
\* and whatever a release_snapshot call removes lay strictly under such a
\* directory, for every path including the snapshot directory itself and a
\* path that leaves it through "..".
C1_ReleaseRemovesOnlySnapshots ==
    [][rel'.n # rel.n =>
         /\ rel'.res = OLAP_SUCCESS => UnderSnapshotDir(canonical(rel'.path))
         /\ \A p \in DOMAIN fs \ DOMAIN fs' : UnderSnapshotDir(p)]_vars

\* C2: release_snapshot of a path in a sibling of the snapshot directory
\* whose name only begins with "snapshot" returns the validation error and
\* leaves the file system as it was.
C2_SiblingRejected ==
    [][rel'.n # rel.n /\ PrefixSimilar(rel'.path) =>
         rel'.res = OLAP_ERR_CE_CMD_PARAMS_ERROR /\ fs' = fs]_vars

\* C3: a release_snapshot call that returns the validation error leaves the
\* file system exactly as it was before the call.
C3_FailedReleaseKeepsFs ==
    [][rel'.n # rel.n /\ rel'.res = OLAP_ERR_CE_CMD_PARAMS_ERROR => fs' = fs]_vars

\* A release of an existing directory was rejected, and the directory is there.
C3_Witness ==
    /\ rel.n > 0
    /\ rel.res = OLAP_ERR_CE_CMD_PARAMS_ERROR
    /\ Lookup(fs, rel.path) \in DOMAIN fs

\* C4: any two make_snapshot calls obtain distinct snapshot id paths, also
\* when they run concurrently, for the same tablet, with the same timestamp.
C4_DistinctSnapshotIdPaths ==
    \A t \in Threads, u \in Threads :
        (t # u /\ th[t].snapshot_id_path # <<>> /\ th[u].snapshot_id_path # <<>>)
            => th[t].snapshot_id_path # th[u].snapshot_id_path

\* Two calls for the same tablet hold their paths, built from the same timestamp.
C4_Witness ==
    \E t \in Threads, u \in Threads :
        /\ t # u
        /\ th[t].snapshot_id_path # <<>> /\ th[u].snapshot_id_path # <<>>
        /\ th[t].ref_tablet = th[u].ref_tablet
        /\ th[t].time_str # <<>> /\ th[t].time_str = th[u].time_str

\* The steps of the full path after the creation of the directory, and the
\* statuses each of them fails with.
StepErrors(where) ==
    CASE where = "no_version" -> {OLAP_ERR_VERSION_NOT_EXIST}
      [] where = "version_check" -> {OLAP_ERR_INPUT_PARAMETER_ERROR}
      [] where = "capture" -> {ERR_CAPTURE_ROWSETS}
      [] where = "malloc" -> {OLAP_ERR_MALLOC_ERROR}
      [] where = "load_header" -> {ERR_GET_HEADER}
      [] where = "save_header" -> {ERR_SAVE_HEADER}
      [] where = "link" -> {ERR_ROWSET_LINK}
      [] where = "append_delta" -> {OLAP_ERR_MALLOC_ERROR, ERR_GET_HEADER,
                                    OLAP_ERR_INPUT_PARAMETER_ERROR, ERR_TABLET_LOAD}
      [] OTHER -> {}

\* A step of the full path after the creation of the directory has failed.
FailedFullSnapshot(t) ==
    th[t].mode = "full" /\ StepErrors(th[t].failed_at) # {}

\* C5: when a step of the full path after the creation of the directory has
\* failed, the call carries the status of that step to its return, and when
\* it has returned nothing is left of the snapshot id directory and no path
\* is returned.
C5_FullFailureRollsBack ==
    \A t \in Threads : FailedFullSnapshot(t) =>
        /\ th[t].pc \in {"epilogue", "finish", "done"}
        /\ th[t].res \in StepErrors(th[t].failed_at)
        /\ Done(t) => SnapshotDirAbsent(t) /\ th[t].snapshot_path = <<>>

\* A full snapshot failed at the link of its second rowset and has returned.
C5_Witness ==
    \E t \in Threads :
        /\ Done(t) /\ FailedFullSnapshot(t)
        /\ th[t].failed_at = "link" /\ th[t].idx = 2
        /\ th[t].res = ERR_ROWSET_LINK

\* C6: the incremental path takes the missing versions in list order; at the
\* first one without a rowset of exactly that version it fails with
\* OLAP_ERR_VERSION_NOT_EXIST, the earlier ones linked and no later one
\* attempted; a failed call leaves nothing of its directory and returns no
\* path; a call that is about to return success has linked every version.
C6_IncrementalStopsAtFirstMissing ==
    \A t \in Threads : th[t].mode = "incremental" =>
        LET k == th[t].ref_tablet
            mv == th[t].request.missing_version
            Has(v) == \E r \in rowsets[k] : r.start = v /\ r.end = v
            linked == {r.start : r \in {x \in LinkedIn(t) : x.start = x.end}}
        IN /\ (th[t].pc = "unlock_incr" /\ th[t].failed_at = "missing_version") =>
                /\ th[t].res = OLAP_ERR_VERSION_NOT_EXIST
                /\ ~Has(mv[th[t].idx])
                /\ \A j \in 1..(th[t].idx - 1) : Has(mv[j]) /\ mv[j] \in linked
                /\ \A j \in (th[t].idx + 1)..Len(mv) : mv[j] \notin linked
           /\ (th[t].pc = "finish" /\ th[t].res = OLAP_SUCCESS) =>
                \A j \in DOMAIN mv : mv[j] \in linked
           /\ (Done(t) /\ th[t].res # OLAP_SUCCESS /\ th[t].snapshot_id_path # <<>>) =>
                SnapshotDirAbsent(t) /\ th[t].snapshot_path = <<>>

\* An incremental snapshot linked its first version, found no rowset for the
\* second, and has returned.
C6_Witness ==
    \E t \in Threads :
        /\ Done(t) /\ th[t].mode = "incremental"
        /\ th[t].failed_at = "missing_version" /\ th[t].idx = 2
        /\ th[t].res = OLAP_ERR_VERSION_NOT_EXIST

\* The validation of the request of thread t, in the words of the contract:
\* the latest rowset is [s, e] with fingerprint H, the request names v and h.
VersionRejected(t) ==
    LET rs == rowsets[th[t].ref_tablet]
        latest == CHOOSE r \in rs : \A q \in rs : q.end <= r.end
        req == th[t].request
    IN /\ req.isset_version
       /\ \/ latest.end < req.version
          \/ /\ latest.start = latest.end /\ latest.end = req.version
             /\ latest.hash # req.version_hash

C8_HeaderMatchesLinks ==
    \A t \in Threads : th[t].mode = "full" =>
        LET k == th[t].ref_tablet
            cover == {th[t].consistent_rowsets[i] : i \in DOMAIN th[t].consistent_rowsets}
            hp == Lookup(fs, HeaderPath(t))
        IN /\ th[t].pc \in {"load_header", "unlock"} =>
                /\ th[t].header_locked
                /\ cover \subseteq rowsets[k]
                /\ Tiles(cover, 0, th[t].version)
           /\ (th[t].pc = "epilogue" /\ th[t].res = OLAP_SUCCESS) =>
                LinkedIn(t) = cover /\ Tiles(cover, 0, th[t].version)
           /\ (th[t].pc \in {"epilogue", "finish", "done"} /\ th[t].res = OLAP_SUCCESS) =>
                /\ rel.n = 0 => hp \in DOMAIN fs
                /\ hp \in DOMAIN fs =>
                     fs[hp].rs_metas = {rowset_meta(r) : r \in LinkedIn(t)}

\* A full snapshot has succeeded with rowsets that a compaction has since
\* dropped from the tablet.
C8_Witness ==
    \E t \in Threads :
        /\ Done(t) /\ th[t].mode = "full" /\ th[t].res = OLAP_SUCCESS
        /\ Lookup(fs, HeaderPath(t)) \in DOMAIN fs
        /\ LinkedIn(t) # {}
        /\ ~(LinkedIn(t) \subseteq rowsets[th[t].ref_tablet])

\* C9: from the capture of the rowsets until the end of the linking, the
\* files of every captured rowset exist, also after a compaction has dropped
\* the rowset from the tablet.
C9_SelectedFilesExist ==
    \A t \in Threads :
        (th[t].mode = "full" /\ th[t].pc \in {"load_header", "unlock", "save_header", "link"})
            => \A i \in DOMAIN th[t].consistent_rowsets :
                   DataFile(th[t].ref_tablet, th[t].consistent_rowsets[i]) \in DOMAIN fs

\* The rowset about to be linked is no longer a rowset of the tablet.
C9_Witness ==
    \E t \in Threads :
        /\ th[t].mode = "full" /\ th[t].pc = "link"
        /\ th[t].consistent_rowsets[th[t].idx] \notin rowsets[th[t].ref_tablet]

FullPcs ==
    {"check_version", "capture", "load_header", "unlock", "save_header", "link",
     "append_delta", "epilogue"}

IncrementalPcs == {"load_header_incr", "save_header_incr", "link_incr", "unlock_incr"}

\* The request of thread t names a tablet of the engine.
TabletExists(t) == <<th[t].request.tablet_id, th[t].request.schema_hash>> \in TabletKeys

\* What C10 says of a call for a tablet that does not exist.
NotFoundEarly(t) ==
    /\ th[t].res = OLAP_ERR_TABLE_NOT_FOUND
    /\ th[t].snapshot_id_path = <<>> /\ th[t].snapshot_path = <<>>
    /\ snapshot_base_id = 0
    /\ \A k \in TabletKeys : readers[k] = {}
    /\ \A p \in DOMAIN fs : UnderSnapshotDir(p) => p \in DOMAIN InitFs

\* What C10 says of a call for a tablet that exists.
OnePath(t) ==
    /\ th[t].mode \in {"full", "incremental"}
    /\ th[t].mode = "incremental" <=> th[t].request.isset_missing_version
    /\ th[t].pc \in FullPcs => th[t].mode = "full"
    /\ th[t].pc \in IncrementalPcs => th[t].mode = "incremental"

\* C10 (as amended): a make_snapshot call with an output slot fails with
\* OLAP_ERR_TABLE_NOT_FOUND when no tablet matches, before a snapshot id is
\* allocated, a directory created or the header lock taken; when the tablet
\* exists it runs one builder: the incremental one if and only if
\* missing_version is set, else the full one.
C10_LookupThenDispatch ==
    \A t \in Threads :
        /\ (Done(t) /\ ~th[t].out_null /\ ~TabletExists(t)) => NotFoundEarly(t)
        /\ (th[t].pc # "idle" /\ ~th[t].out_null /\ TabletExists(t)) => OnePath(t)

\* A call with an output slot for a tablet that does not exist has returned.
C10_Witness ==
    \E t \in Threads :
        /\ Done(t) /\ ~th[t].out_null /\ ~TabletExists(t)
        /\ th[t].res = OLAP_ERR_TABLE_NOT_FOUND

\* C10 (as stated): every make_snapshot call fails with
\* OLAP_ERR_TABLE_NOT_FOUND when no tablet matches, and every call for a
\* tablet that exists runs exactly one of the two builders.
C10_EveryCall ==
    \A t \in Threads :
        /\ (Done(t) /\ ~TabletExists(t)) => NotFoundEarly(t)
        /\ (th[t].pc # "idle" /\ TabletExists(t)) => OnePath(t)

\* The snapshot id directory of the call of thread t.
SnapshotIdDir(t) == canonical(th[t].snapshot_id_path)

\* Path p is a snapshot id directory: a directory of the snapshot directory
\* of a registered store.
IsSnapshotIdDir(p) ==
    \E i \in DOMAIN Stores : Parent(p) = canonical(Stores[i]) \o <<SnapshotDirName>>

IsCover(cr, lo, hi) ==
    /\ cr # <<>>
    /\ cr[1].start = lo /\ cr[Len(cr)].end = hi
    /\ \A i \in DOMAIN cr : cr[i].start <= cr[i].end
    /\ \A i \in 1..(Len(cr) - 1) : cr[i + 1].start = cr[i].end + 1

\* The subsets of rs that tile the versions lo..hi.
Covers(rs, lo, hi) == {c \in SUBSET rs : Tiles(c, lo, hi)}

\* The committed rowsets of the example of the contract.
ExampleRowsets == {Rowset(0, 10, 7), Rowset(11, 15, 7), Rowset(16, 20, 7)}

\* C12: a full snapshot selects a cover of [0, target] with the fewest
\* rowsets: they start at version 0, end at the target and follow each other
\* without gap or overlap; when the committed rowsets have no such cover
\* (the target lies inside a rowset) the capture fails and the snapshot is
\* aborted.  Of [0,10], [11,15], [16,20], version 15 selects [0,10], [11,15]
\* and version 18 selects nothing.
C12_ConsistentCover ==
    /\ capture_consistent_rowsets(ExampleRowsets, 0, 15) =
           [ok |-> TRUE, rowsets |-> <<Rowset(0, 10, 7), Rowset(11, 15, 7)>>]
    /\ ~capture_consistent_rowsets(ExampleRowsets, 0, 18).ok
    /\ \A t \in Threads : th[t].mode = "full" =>
         LET rs == rowsets[th[t].ref_tablet]
             cr == th[t].consistent_rowsets
         IN /\ th[t].pc \in {"load_header", "unlock", "save_header", "link", "append_delta"} =>
                 IsCover(cr, 0, th[t].version)
            /\ th[t].pc \in {"load_header", "unlock"} =>
                 /\ {cr[i] : i \in DOMAIN cr} \in Covers(rs, 0, th[t].version)
                 /\ \A c \in Covers(rs, 0, th[t].version) : Len(cr) <= Cardinality(c)
            /\ (th[t].pc = "epilogue" /\ th[t].failed_at = "capture") =>
                 /\ Covers(rs, 0, th[t].version) = {}
                 /\ th[t].res = ERR_CAPTURE_ROWSETS
            /\ (Done(t) /\ th[t].failed_at = "capture") =>
                 /\ th[t].res = ERR_CAPTURE_ROWSETS
                 /\ SnapshotDirAbsent(t) /\ th[t].snapshot_path = <<>>

\* The capture has failed for a requested version inside a rowset.
C12_Witness ==
    \E t \in Threads :
        /\ th[t].pc = "epilogue" /\ th[t].failed_at = "capture"
        /\ th[t].request.isset_version
        /\ \E r \in rowsets[th[t].ref_tablet] :
               r.start <= th[t].request.version /\ th[t].request.version < r.end

\* C13: when a full snapshot of an explicit version v has selected a rowset
\* that ends at v and starts before it, the header saved in the snapshot
\* directory holds, once the delta append has succeeded, a meta of the
\* singleton version [v + 1, v + 1], which is its latest version.
C13_PlaceholderDelta ==
    \A t \in Threads :
        LET cr == th[t].consistent_rowsets
            v == th[t].request.version
            hp == Lookup(fs, HeaderPath(t))
        IN (/\ th[t].mode = "full" /\ th[t].pc = "epilogue" /\ th[t].res = OLAP_SUCCESS
            /\ th[t].request.isset_version
            /\ \E i \in DOMAIN cr : cr[i].end = v /\ cr[i].start # v)
           => /\ hp \in DOMAIN fs
              /\ \E m \in fs[hp].rs_metas : m.version = <<v + 1, v + 1>>
              /\ \A m \in fs[hp].rs_metas : m.version[2] <= v + 1

\* C14: no step of a make_snapshot call, full or incremental, successful or
\* failed, changes the committed rowsets of a tablet or its stored header.
C14_TabletUnchanged ==
    [][th' # th => rowsets' = rowsets /\ meta_store' = meta_store]_vars

\* A full snapshot has returned with a header trimmed to its cover, and the
\* stored header of the tablet, which nobody has written, holds more.
C14_Witness ==
    \E t \in Threads :
        /\ Done(t) /\ th[t].mode = "full" /\ th[t].res = OLAP_SUCCESS
        /\ writes = 0
        /\ Lookup(fs, HeaderPath(t)) \in DOMAIN fs
        /\ fs[Lookup(fs, HeaderPath(t))].rs_metas # meta_store[th[t].ref_tablet]
        /\ meta_store[th[t].ref_tablet] = {rowset_meta(r) : r \in InitRowsets(th[t].ref_tablet)}

\* The order of the steps of the full path: the positions a call can move to
\* from each position (a failure moves to the end of the block).
FullOrder ==
    {<<"rdlock", "check_version">>, <<"check_version", "capture">>,
     <<"capture", "load_header">>, <<"load_header", "unlock">>,
     <<"unlock", "save_header">>, <<"save_header", "link">>, <<"link", "link">>,
     <<"link", "append_delta">>, <<"append_delta", "epilogue">>,
     <<"epilogue", "finish">>, <<"finish", "done">>}
    \cup {<<p, "epilogue">> : p \in {"check_version", "capture", "load_header",
                                      "save_header", "link"}}

\* What the full path holds at each position: the read lock from its
\* acquisition to its release, with no writer in; the header copy loaded
\* under the lock is the stored header, which holds the captured rowsets.
LockScope(t) ==
    LET k == th[t].ref_tablet
        locked == th[t].header_locked /\ t \in readers[k] /\ ~writer[k]
    IN /\ th[t].pc \in {"check_version", "capture", "load_header", "unlock"} => locked
       /\ th[t].pc = "unlock" =>
            /\ th[t].new_tablet_meta.rs_metas = meta_store[k]
            /\ \A i \in DOMAIN th[t].consistent_rowsets :
                   /\ th[t].consistent_rowsets[i] \in rowsets[k]
                   /\ rowset_meta(th[t].consistent_rowsets[i]) \in th[t].new_tablet_meta.rs_metas
       /\ th[t].pc \in {"save_header", "link", "append_delta", "finish", "done"} =>
            ~th[t].header_locked /\ t \notin readers[k]

\* C15: the full path takes its steps in the order read lock, version,
\* capture, header load, release of the lock, header save, links; the capture
\* and the header load are in one critical section of the read lock, and the
\* header is saved and the files are linked without the lock.
C15_FullPathOrder ==
    [][\A t \in Threads : th'[t].mode = "full" =>
         /\ (th'[t].pc # th[t].pc /\ th[t].pc \notin {"idle", "gen_timestamp", "lock_id",
                                                      "alloc_id", "create_dirs"})
                => <<th[t].pc, th'[t].pc>> \in FullOrder
         /\ LockScope(t)']_vars

\* A writer holds the header lock of the tablet while the call links files.
C15_Witness ==
    \E t \in Threads :
        /\ th[t].mode = "full" /\ th[t].pc = "link"
        /\ writer[th[t].ref_tablet]

\* C16: an incremental call holds the read lock of the tablet's header, with
\* no writer in, at its header load, its header save, every lookup and link
\* of a missing version and up to the release after the loop; it holds the
\* lock no more when it rolls back or returns.
C16_IncrementalHoldsLock ==
    \A t \in Threads : th[t].mode = "incremental" =>
        LET k == th[t].ref_tablet
        IN /\ th[t].pc \in IncrementalPcs => t \in readers[k] /\ ~writer[k]
           /\ th[t].pc \in {"save_header_incr", "link_incr"} =>
                th[t].new_tablet_meta.rs_metas = meta_store[k]
           /\ th[t].pc \in {"finish", "done"} => \A j \in TabletKeys : t \notin readers[j]

\* An incremental call is at its second missing version, with a write of the
\* tablet still to come.
C16_Witness ==
    \E t \in Threads :
        /\ th[t].mode = "incremental" /\ th[t].pc = "link_incr" /\ th[t].idx = 2
        /\ th[t].ref_tablet \in WrittenTablets /\ writes < MaxWrites

\* Thread t has read the timestamp of its path and not yet the counter.
BetweenTimestampAndCounter(t) == th[t].pc \in {"lock_id", "alloc_id"}

\* C17 (as stated): the timestamp and the counter value of a path are read
\* in one critical section: while a call is between its timestamp read and
\* its counter read, no other call reads the counter.
C17_TimestampAndCounterAtomic ==
    [][\A t \in Threads, u \in Threads :
         (t # u /\ BetweenTimestampAndCounter(t))
             => ~(th[u].pc = "alloc_id" /\ th'[u].pc # "alloc_id")]_vars

\* C17 (as amended): only the counter is read and incremented in the
\* critical section of the snapshot mutex: a call that reads the counter
\* holds the mutex, so no two calls read it at once; the timestamp has been
\* read before the mutex is taken.
C17_CounterUnderMutex ==
    \A t \in Threads :
        /\ th[t].pc = "alloc_id" => snapshot_mutex = t
        /\ th[t].pc = "lock_id" => snapshot_mutex # t /\ th[t].time_str # <<>>
        /\ snapshot_mutex = t => th[t].pc = "alloc_id"

\* One call has read its timestamp and waits for the mutex that another
\* call, about to read the counter, holds.
C17_Witness ==
    \E t \in Threads, u \in Threads :
        /\ t # u
        /\ th[t].pc = "lock_id" /\ th[t].time_str # <<>>
        /\ th[u].pc = "alloc_id" /\ snapshot_mutex = u

\* The paths strictly under the schema hash directory of t's snapshot.
InSchemaDir(t) ==
    {p \in DOMAIN fs : IsPrefix(canonical(SchemaFullPath(t)), p)
                       /\ p # canonical(SchemaFullPath(t))}

\* The call of thread t has created its schema hash directory and not yet
\* returned.
Building(t) ==
    th[t].pc \in FullPcs \cup IncrementalPcs \cup {"rdlock", "finish"}

\* C18: in both paths the schema hash directory is empty when the call has
\* created it, whatever was at its path before, and from then on to a
\* successful return it holds nothing but the header and the files of
\* rowsets this call has linked.
C18_NoLeftovers ==
    \A t \in Threads :
        /\ th[t].pc = "rdlock" =>
             IsDir(fs, canonical(SchemaFullPath(t))) /\ InSchemaDir(t) = {}
        /\ (Building(t) \/ (Done(t) /\ th[t].res = OLAP_SUCCESS)) =>
             \A p \in InSchemaDir(t) :
                 \/ fs[p].kind = "hdr" /\ p = Lookup(fs, HeaderPath(t))
                 \/ /\ fs[p].kind = "file"
                    /\ p = Append(canonical(SchemaFullPath(t)), RowsetFile(fs[p].rowset))
                    /\ th[t].mode = "full" /\ th[t].pc \in FullPcs =>
                         \E i \in 1..th[t].idx : th[t].consistent_rowsets[i] = fs[p].rowset
                    /\ th[t].mode = "incremental" /\ th[t].pc \in IncrementalPcs =>
                         \E i \in 1..th[t].idx :
                             fs[p].rowset.start = th[t].request.missing_version[i]

\* A snapshot has been built and returned at the path where an earlier run
\* had left a directory with a file.
C18_Witness ==
    \E t \in Threads :
        /\ Done(t) /\ th[t].res = OLAP_SUCCESS
        /\ canonical(SchemaFullPath(t)) = StaleSchemaDir
        /\ Lookup(fs, HeaderPath(t)) \in DOMAIN fs
        /\ StaleFile \notin DOMAIN fs

\* C19: the header an incremental snapshot has saved is the stored header of
\* the tablet with all its rowset metas, whatever versions are requested,
\* and the files a successful incremental snapshot has linked are those of
\* the singleton rowsets of the requested versions.
C19_IncrementalHeaderPassthrough ==
    \A t \in Threads : th[t].mode = "incremental" =>
        LET k == th[t].ref_tablet
            mv == th[t].request.missing_version
            hp == Lookup(fs, HeaderPath(t))
        IN /\ (th[t].pc \in {"link_incr", "unlock_incr"}
               /\ th[t].failed_at \notin {"load_header", "save_header"}) =>
                /\ hp \in DOMAIN fs
                /\ fs[hp].rs_metas = meta_store[k]
                /\ fs[hp].rs_metas = {rowset_meta(r) : r \in rowsets[k]}
           /\ (th[t].pc = "unlock_incr" /\ th[t].res = OLAP_SUCCESS) =>
                LinkedIn(t) = {r \in rowsets[k] :
                                 r.start = r.end /\ \E i \in DOMAIN mv : mv[i] = r.start}
           /\ (th[t].pc \in {"unlock_incr", "finish"} /\ th[t].res = OLAP_SUCCESS) =>
                {r.start : r \in LinkedIn(t)} = {mv[i] : i \in DOMAIN mv}

\* An incremental snapshot of one version has succeeded with a header of
\* more than one rowset.
C19_Witness ==
    \E t \in Threads :
        /\ th[t].mode = "incremental" /\ th[t].pc = "unlock_incr"
        /\ th[t].res = OLAP_SUCCESS
        /\ Len(th[t].request.missing_version) = 1
        /\ Cardinality(fs[Lookup(fs, HeaderPath(t))].rs_metas) > 1

\* The bloom filter false positive rate a reader of the message pb uses.
FalsePositiveRate(pb) == IF pb.has_bf_fpp THEN pb.bf_fpp ELSE BLOOM_FILTER_DEFAULT_FPP

\* C20: a schema message decoded by TabletSchema::init_from_pb into a new
\* object and encoded by to_schema_pb is the message again: every column
\* has the same unique_id, name, type, is_key, is_nullable, default value,
\* precision, frac, length, index_length, is_bf_column and
\* referenced_column_id, in the same order, and the schema-level fields are
\* the same, an absent false positive rate counting as its default.
C20_SchemaRoundTrip ==
    sch.pc = "done" =>
        /\ Len(sch.tablet_meta_pb.column) = Len(sch.schema.column)
        /\ \A i \in DOMAIN sch.schema.column :
               sch.tablet_meta_pb.column[i] = sch.schema.column[i]
        /\ \A f \in {"num_short_key_columns", "num_rows_per_row_block", "keys_type",
                     "compress_kind", "next_column_unique_id"} :
               sch.tablet_meta_pb[f] = sch.schema[f]
        /\ FalsePositiveRate(sch.tablet_meta_pb) = FalsePositiveRate(sch.schema)


\* The positions of a builder between its obtain_header_rdlock call and the
\* end of its do-while block.
AfterRdlockPcs == FullPcs \cup IncrementalPcs

\* C21: a make_snapshot call that has reached the lock has called
\* obtain_header_rdlock once; it never calls release_header_lock more often
\* than it has locked, so never twice and never without holding the lock;
\* it holds the lock exactly between the two calls; and when the rollback
\* is about to run and when the call has returned, on success and on every
\* failure exit, the lock has been released as often as it was obtained and
\* the thread holds no lock.
C21_LockReleasedOnce ==
    \A t \in Threads :
        /\ th[t].rdlocks <= 1
        /\ th[t].releases <= th[t].rdlocks
        /\ th[t].pc \in AfterRdlockPcs => th[t].rdlocks = 1
        /\ \A k \in TabletKeys :
               t \in readers[k] <=>
                   k = th[t].ref_tablet /\ th[t].rdlocks = 1 /\ th[t].releases = 0
        /\ th[t].pc \in {"finish", "done"} =>
               /\ th[t].releases = th[t].rdlocks
               /\ \A k \in TabletKeys : t \notin readers[k]

\* A call has returned a failure that left the block with the lock held: it
\* locked once and released once.
C21_Witness ==
    \E t \in Threads :
        /\ th[t].pc = "done" /\ th[t].res # OLAP_SUCCESS
        /\ th[t].failed_at \in {"load_header", "capture", "malloc"}
        /\ th[t].rdlocks = 1 /\ th[t].releases = 1


\* The step changes path p: it creates it, removes it or alters its content.
Changes(p) ==
    \/ (p \in DOMAIN fs) # (p \in DOMAIN fs')
    \/ p \in DOMAIN fs /\ p \in DOMAIN fs' /\ fs'[p] # fs[p]

\* Thread u has been allocated a snapshot id directory and p lies in it.
InSnapshotOf(u, p) == th[u].snapshot_id_path # <<>> /\ IsPrefix(SnapshotIdDir(u), p)

\* C22: whatever a step of a make_snapshot call removes, at its start or in
\* its rollback, lies in the snapshot id directory allocated to that call,
\* and no step of a call creates, removes or alters anything in the snapshot
\* id directory of another call, in progress or returned.
C22_OwnDirectoryOnly ==
    [][\A t \in Threads : (th'[t] # th[t] /\ fs' # fs) =>
         \A p \in DOMAIN fs \cup DOMAIN fs' : Changes(p) =>
             /\ p \notin DOMAIN fs' => InSnapshotOf(t, p)
             /\ \A u \in Threads \ {t} : ~InSnapshotOf(u, p)]_vars

\* A call has failed and removed its snapshot id directory while the
\* directory of another call, next to it in the same snapshot directory,
\* stands with its header.
C22_Witness ==
    \E t \in Threads, u \in Threads :
        /\ t # u
        /\ Done(t) /\ th[t].res # OLAP_SUCCESS /\ th[t].snapshot_id_path # <<>>
        /\ SnapshotIdDir(t) \notin DOMAIN fs
        /\ th[u].snapshot_id_path # <<>>
        /\ Parent(SnapshotIdDir(u)) = Parent(SnapshotIdDir(t))
        /\ Lookup(fs, HeaderPath(u)) \in DOMAIN fs


\* The positions at which a call waits for a lock, or is not running.
WaitingPcs == {"idle", "lock_id", "rdlock", "done"}

\* The thread of t keeps running: it is not for ever at a position where it
\* waits for nothing without taking a step.
KeepsRunning(t) == []<>(th[t].pc \in WaitingPcs) \/ []<><<LiveStep(t)>>_vars

\* The call of t has returned, with a path exactly if it succeeded, and
\* holds no header lock.
Returned23(t) ==
    /\ th[t].pc = "done"
    /\ th[t].res = OLAP_SUCCESS <=> th[t].snapshot_path # <<>>
    /\ \A k \in TabletKeys : t \notin readers[k]

\* C23: if the id mutex and the header lock are granted to a thread that
\* can take them again and again, writers release the header lock and the
\* threads keep running, then every make_snapshot call that has begun
\* returns, with success or an error status, and holds no header lock; so
\* two concurrent calls do not block each other for ever.
C23_EveryCallReturns ==
    (\A t \in Threads : KeepsRunning(t)) =>
        \A t \in Threads : (th[t].pc \notin {"idle", "done"}) ~> Returned23(t)

\* One call waits for the id mutex, which the other call holds, while a
\* writer holds the header lock of their tablet.
C23_Witness ==
    \E t \in Threads, u \in Threads :
        /\ t # u
        /\ th[t].pc = "lock_id" /\ snapshot_mutex = u /\ th[u].pc = "alloc_id"
        /\ writer[th[u].ref_tablet]

====
